---- MODULE Spec2Model ----
(***************************************************************************)
(* Model of the AI mail redirection agent: the routing decision pipeline   *)
(* (Rule.matches, Router.decide, OllamaAnalyzer._parse_response) and the   *)
(* web dashboard's lifecycle handling (process_emails, approve_email,      *)
(* reject_email) over an IMAP mail store and an SMTP transport.            *)
(*                                                                         *)
(* Conventions                                                             *)
(*  - text that the code searches in (sender, subject, body, patterns) is  *)
(*    a sequence of one-character strings; text that the code only         *)
(*    compares or tests for emptiness (addresses, categories, actions) is  *)
(*    a TLA+ string, "" being Python's empty string;                       *)
(*  - Python's None is the value None where the other values are strings,  *)
(*    NoText / NoList / NoResult / NoDecision where they are structured;   *)
(*  - a confidence is an integer number of 1/10000: 1.0 is ConfOne;        *)
(*  - display-only fields (reasoning, raw_response, from_addr/subject/body *)
(*    copies in EmailStatus) take part in no decision and are left out.    *)
(***************************************************************************)
EXTENDS Integers, Sequences, FiniteSets, TLC

None == "<None>"
Absent == "<absent>"

ConfOne == 10000
RouterThreshold == 7000
DashboardThreshold == 8000

(***************************************************************************)
(* Text helpers                                                            *)
(***************************************************************************)
Chars == {"a", "b", "A", "B", "*", " "}

LowerChar(c) == IF c = "A" THEN "a" ELSE IF c = "B" THEN "b" ELSE c

Lower(s) == [i \in 1..Len(s) |-> LowerChar(s[i])]

RECURSIVE RemoveStar(_)
RemoveStar(s) ==
    IF s = <<>> THEN <<>>
    ELSE IF Head(s) = "*" THEN RemoveStar(Tail(s))
    ELSE <<Head(s)>> \o RemoveStar(Tail(s))

\* Python's `pat in s` for strings
Contains(pat, s) ==
    \E i \in 0..(Len(s) - Len(pat)) : SubSeq(s, i + 1, i + Len(pat)) = pat

(***************************************************************************)
(* Rule.matches                                                            *)
(* A rule is [name, match_from, match_subject, match_keywords, forward_to];*)
(* match_from is an optional text, match_subject and match_keywords are    *)
(* optional sequences of texts: [set |-> FALSE] is None, Some(v) is v.     *)
(***************************************************************************)
NoText == [set |-> FALSE, v |-> <<>>]
NoList == [set |-> FALSE, v |-> <<>>]
Some(v) == [set |-> TRUE, v |-> v]

\* Python truthiness of an optional text or list
Truthy(o) == o.set /\ o.v # <<>>

AnyKeywordIn(kws, text) == \E k \in 1..Len(kws) : Contains(Lower(kws[k]), text)

\* the sender pattern compared as written, "*" included
RuleMatchesKeepingStar(rule, email) ==
    LET subject == Lower(email.subject)
        body == Lower(email.body)
        text == subject \o <<" ">> \o body
    IN  /\ Truthy(rule.match_from) =>
              Contains(Lower(rule.match_from.v), Lower(email.from))
        /\ Truthy(rule.match_subject) => AnyKeywordIn(rule.match_subject.v, subject)
        /\ Truthy(rule.match_keywords) => AnyKeywordIn(rule.match_keywords.v, text)

RuleMatches(rule, email) ==
    LET subject == Lower(email.subject)
        body == Lower(email.body)
        text == subject \o <<" ">> \o body
    IN  /\ Truthy(rule.match_from) =>
              Contains(Lower(RemoveStar(rule.match_from.v)), Lower(email.from))
        /\ Truthy(rule.match_subject) => AnyKeywordIn(rule.match_subject.v, subject)
        /\ Truthy(rule.match_keywords) => AnyKeywordIn(rule.match_keywords.v, text)

(***************************************************************************)
(* OllamaAnalyzer._normalize_confidence                                    *)
(* A raw confidence is [kind |-> "num", v |-> n] (a JSON number),          *)
(* [kind |-> "bool", b |-> TRUE] (a JSON true or false),                   *)
(* [kind |-> "str", v |-> n] (a string that float() reads as the number   *)
(* n), [kind |-> "nan"] (the string "nan", which float() reads as NaN) or  *)
(* [kind |-> "bad"] (anything else, null included); [kind |-> "absent"]    *)
(* is a missing key.  Division by 100 is exact on the inputs used          *)
(* (multiples of 100 above ConfOne).                                       *)
(***************************************************************************)
Max(a, b) == IF a >= b THEN a ELSE b
Min(a, b) == IF a <= b THEN a ELSE b

NormalizeConfidence(val) ==
    IF val.kind = "num" THEN
        LET x == IF val.v > ConfOne THEN val.v \div 100 ELSE val.v
        IN  IF x < 0 THEN 0 ELSE IF x > ConfOne THEN ConfOne ELSE x
    \* bool is a subclass of int: float(True) is 1.0, float(False) is 0.0
    ELSE IF val.kind = "bool" THEN
        IF val.b THEN ConfOne ELSE 0
    ELSE IF val.kind = "str" THEN
        LET x == IF val.v > ConfOne THEN val.v \div 100 ELSE val.v
        IN  Max(0, Min(ConfOne, x))
    \* every comparison with NaN is false: x > 1.0 fails, min(1.0, x) keeps
    \* its first argument 1.0, and max(0.0, 1.0) is 1.0
    ELSE IF val.kind = "nan" THEN ConfOne
    ELSE 0

(***************************************************************************)
(* OllamaAnalyzer._parse_response on the extracted JSON object.            *)
(* data is [category, action, forward_to, confidence]; a key the object    *)
(* lacks holds Absent, a JSON null holds None.                             *)
(***************************************************************************)
\* str(x).strip().lower() on the label strings the model can emit
StrNorm(s) ==
    CASE s = "SPAM" -> "spam"
      [] s = " spam " -> "spam"
      [] s = "Forward" -> "forward"
      [] s = "Needs-Review" -> "needs-review"
      [] s = "NEEDS_REVIEW" -> "needs_review"
      [] s = "Vendors" -> "vendors"
      [] s = "NULL" -> "null"
      [] s = "Null" -> "null"
      [] s = " " -> ""
      [] s = None -> "none"
      [] OTHER -> s

\* str(x).strip() on forward_to
StrStrip(s) ==
    CASE s = " " -> ""
      [] s = " spam " -> "spam"
      [] OTHER -> s

Get(data, key, default) == IF data[key] = Absent THEN default ELSE data[key]

\* a missing confidence defaulted to 0.5, as the hosted analyzer does
GetConfidenceDefaultHalf(data) ==
    IF data.confidence.kind = "absent" THEN [kind |-> "num", v |-> 5000]
    ELSE data.confidence

GetConfidence(data) ==
    IF data.confidence.kind = "absent" THEN [kind |-> "num", v |-> 0]
    ELSE data.confidence

NoResult == [present |-> FALSE]

AnalysisResult(fwd, cat, conf) ==
    [present |-> TRUE, forward_to |-> fwd, category |-> cat,
     confidence |-> conf, additional_destinations |-> <<>>]

\* an unknown action treated like needs_review
ParseResponseKeepingFields(data) ==
    LET category == StrNorm(Get(data, "category", "unknown"))
        action == StrNorm(Get(data, "action", "needs_review"))
        forward_to == Get(data, "forward_to", None)
        confidence == NormalizeConfidence(GetConfidence(data))
        forward_to_str ==
            IF forward_to = None THEN ""
            ELSE IF StrNorm(StrStrip(forward_to)) = "null" THEN ""
            ELSE StrStrip(forward_to)
    IN  IF action = "spam" THEN
            AnalysisResult(IF forward_to_str # "" THEN forward_to_str
                           ELSE "spam@mail.local", "spam", confidence)
        ELSE IF action = "forward" /\ forward_to_str # "" THEN
            AnalysisResult(forward_to_str, category, confidence)
        ELSE IF action = "no_forward" THEN
            AnalysisResult("", category, confidence)
        ELSE IF action \in {"needs_review", "needs-review"} THEN
            AnalysisResult(forward_to_str, category, confidence)
        ELSE AnalysisResult(forward_to_str, category, confidence)

\* "null" recognised in lower case only
ParseResponseNullAsWritten(data) ==
    LET category == StrNorm(Get(data, "category", "unknown"))
        action == StrNorm(Get(data, "action", "needs_review"))
        forward_to == Get(data, "forward_to", None)
        confidence == NormalizeConfidence(GetConfidence(data))
        forward_to_str ==
            IF forward_to = None THEN ""
            ELSE IF StrStrip(forward_to) = "null" THEN ""
            ELSE StrStrip(forward_to)
    IN  IF action = "spam" THEN
            AnalysisResult(IF forward_to_str # "" THEN forward_to_str
                           ELSE "spam@mail.local", "spam", confidence)
        ELSE IF action = "forward" /\ forward_to_str # "" THEN
            AnalysisResult(forward_to_str, category, confidence)
        ELSE IF action = "no_forward" THEN
            AnalysisResult("", category, confidence)
        ELSE IF action \in {"needs_review", "needs-review"} THEN
            AnalysisResult(forward_to_str, category, confidence)
        ELSE AnalysisResult("", "review", 0)

ParseResponse(data) ==
    LET category == StrNorm(Get(data, "category", "unknown"))
        action == StrNorm(Get(data, "action", "needs_review"))
        forward_to == Get(data, "forward_to", None)
        confidence == NormalizeConfidence(GetConfidence(data))
        forward_to_str ==
            IF forward_to = None THEN ""
            ELSE IF StrNorm(StrStrip(forward_to)) = "null" THEN ""
            ELSE StrStrip(forward_to)
    IN  IF action = "spam" THEN
            AnalysisResult(IF forward_to_str # "" THEN forward_to_str
                           ELSE "spam@mail.local", "spam", confidence)
        ELSE IF action = "forward" /\ forward_to_str # "" THEN
            AnalysisResult(forward_to_str, category, confidence)
        ELSE IF action = "no_forward" THEN
            AnalysisResult("", category, confidence)
        ELSE IF action \in {"needs_review", "needs-review"} THEN
            AnalysisResult(forward_to_str, category, confidence)
        ELSE AnalysisResult("", "review", 0)

\* the fallback labelled as an error, as the hosted analyzer labels it
RetriesExhaustedAsError == AnalysisResult("", "error", 0)

\* OllamaAnalyzer.analyze after the last failed attempt
RetriesExhausted == AnalysisResult("", "review", 0)

(***************************************************************************)
(* RoutingDecision and Router.decide                                       *)
(***************************************************************************)
NoDecision == [present |-> FALSE]

AllDestinations(decision) ==
    (IF decision.forward_to # "" THEN <<decision.forward_to>> ELSE <<>>)
        \o decision.additional_destinations

RECURSIVE FirstMatch(_, _, _)
FirstMatch(rules, email, i) ==
    IF i > Len(rules) THEN 0
    ELSE IF RuleMatches(rules[i], email) THEN i
    ELSE FirstMatch(rules, email, i + 1)

\* the default action left out of the test
AnalyzerEnabledWhateverAction(router) == router.analyzer # None

AnalyzerEnabled(router) ==
    router.analyzer # None /\ router.default_action \in {"analyze", "ai_route"}

\* the confidence test written with > instead of >=
RouterDecideAboveThreshold(router, email, ai) ==
    LET m == FirstMatch(router.rules, email, 1)
    IN  IF m # 0 THEN
            [present |-> TRUE,
             forward_to |-> router.rules[m].forward_to,
             matched_rule |-> router.rules[m].name,
             ai_result |-> NoResult,
             should_forward |-> router.rules[m].forward_to # "",
             additional_destinations |-> <<>>]
        ELSE IF AnalyzerEnabled(router) THEN
            [present |-> TRUE,
             forward_to |-> ai.forward_to,
             matched_rule |-> None,
             ai_result |-> ai,
             should_forward |-> ai.forward_to # ""
                                  /\ ai.confidence > RouterThreshold,
             additional_destinations |-> ai.additional_destinations]
        ELSE
            [present |-> TRUE,
             forward_to |-> "",
             matched_rule |-> None,
             ai_result |-> NoResult,
             should_forward |-> FALSE,
             additional_destinations |-> <<>>]

\* the primary destination listed again among the additional ones
RouterDecidePrimaryRepeated(router, email, ai) ==
    LET m == FirstMatch(router.rules, email, 1)
    IN  IF m # 0 THEN
            [present |-> TRUE,
             forward_to |-> router.rules[m].forward_to,
             matched_rule |-> router.rules[m].name,
             ai_result |-> NoResult,
             should_forward |-> router.rules[m].forward_to # "",
             additional_destinations |-> <<>>]
        ELSE IF AnalyzerEnabled(router) THEN
            [present |-> TRUE,
             forward_to |-> ai.forward_to,
             matched_rule |-> None,
             ai_result |-> ai,
             should_forward |-> ai.forward_to # ""
                                  /\ ai.confidence >= RouterThreshold,
             additional_destinations |-> <<ai.forward_to>>
                                             \o ai.additional_destinations]
        ELSE
            [present |-> TRUE,
             forward_to |-> "",
             matched_rule |-> None,
             ai_result |-> NoResult,
             should_forward |-> FALSE,
             additional_destinations |-> <<>>]

\* ai is the AnalysisResult the analyzer returns if decide invokes it
RouterDecide(router, email, ai) ==
    LET m == FirstMatch(router.rules, email, 1)
    IN  IF m # 0 THEN
            [present |-> TRUE,
             forward_to |-> router.rules[m].forward_to,
             matched_rule |-> router.rules[m].name,
             ai_result |-> NoResult,
             should_forward |-> router.rules[m].forward_to # "",
             additional_destinations |-> <<>>]
        ELSE IF AnalyzerEnabled(router) THEN
            [present |-> TRUE,
             forward_to |-> ai.forward_to,
             matched_rule |-> None,
             ai_result |-> ai,
             should_forward |-> ai.forward_to # ""
                                  /\ ai.confidence >= RouterThreshold,
             additional_destinations |-> ai.additional_destinations]
        ELSE
            [present |-> TRUE,
             forward_to |-> "",
             matched_rule |-> None,
             ai_result |-> NoResult,
             should_forward |-> FALSE,
             additional_destinations |-> <<>>]

\* the hosted backend preferred to the local one
RouterInitHostedFirst(cfg) ==
    [rules |-> cfg.rules,
     default_action |-> cfg.default_action,
     analyzer |-> IF cfg.ai_enabled
                  THEN IF cfg.gemini_api_key # "" THEN "gemini"
                       ELSE IF cfg.ollama_model # "" THEN "ollama"
                       ELSE None
                  ELSE None]

\* Router.__init__: the analyzer backend chosen at construction
RouterInit(cfg) ==
    [rules |-> cfg.rules,
     default_action |-> cfg.default_action,
     analyzer |-> IF cfg.ai_enabled
                  THEN IF cfg.ollama_model # "" THEN "ollama"
                       ELSE IF cfg.gemini_api_key # "" THEN "gemini"
                       ELSE None
                  ELSE None]

(***************************************************************************)
(* The running system: mail store, SMTP transport and the web dashboard    *)
(***************************************************************************)
MaxSends == 2
MaxRestarts == 1
MaxOwnerReads == 1

UIDs == {1, 2}
Folders == {"INBOX", "Review", "Processed", "Quarantine", "Skipped"}
Dests == {"ceo-inbox@mail.local", "vendors@mail.local", "spam@mail.local"}

Watchers == {"w1", "w2"}
Refreshers == {"r1"}
Pollers == Watchers \cup Refreshers
Handlers == {"h1", "h2"}

\* config.yaml as loaded by load_config: one rule, AI routing through Ollama
Config ==
    [rules |-> << [name |-> "VIP", match_from |-> Some(<<"b", "*">>),
                   match_subject |-> NoList, match_keywords |-> NoList,
                   forward_to |-> "ceo-inbox@mail.local"] >>,
     ai_enabled |-> TRUE, ollama_model |-> "qwen3", gemini_api_key |-> "",
     default_action |-> "analyze"]

\* the messages that can arrive: one from the VIP sender, one from elsewhere
FromBoss == [from |-> <<"B">>, subject |-> <<"a">>, body |-> <<>>]
FromOther == [from |-> <<"a">>, subject |-> <<"b">>, body |-> <<>>]
Mails == {FromBoss, FromOther}

\* JSON objects the model can answer with
ModelOutputs ==
    { [category |-> "spam", action |-> "spam", forward_to |-> None,
       confidence |-> [kind |-> "num", v |-> 9700]],
      [category |-> "vendors", action |-> "needs_review",
       forward_to |-> "vendors@mail.local",
       confidence |-> [kind |-> "num", v |-> 5500]],
      [category |-> "vendors", action |-> "forward",
       forward_to |-> "vendors@mail.local",
       confidence |-> [kind |-> "num", v |-> 7500]],
      [category |-> "quarantine", action |-> "forward",
       forward_to |-> "spam@mail.local",
       confidence |-> [kind |-> "str", v |-> 950000]] }

\* a result for a multi-category email: a primary and one additional
\* destination, with a confidence between the router's and the dashboard's
\* thresholds
MultiCategoryResult ==
    [AnalysisResult("vendors@mail.local", "vendors", 7500)
        EXCEPT !.additional_destinations = <<"ceo-inbox@mail.local">>]

\* what OllamaAnalyzer.analyze can return
OllamaResults == {ParseResponse(o) : o \in ModelOutputs} \cup {RetriesExhausted}

\* what an analyzer can return
AnalyzeResults == OllamaResults \cup {MultiCategoryResult}

\* how opening the mail-store connection can end: connected, refused before
\* a connection exists, or failing after IMAPLib(...) returned
ConnectOutcomes == {"connected", "refused", "login failed"}

\* how a handler's `with imap: imap.move_email(...)` can end
MoveOutcomes == {"moved", "failed", "login failed"}

VARIABLES
    folder,           \* mail store: the folder holding each message ("none": not yet delivered)
    seen,             \* mail store: messages carrying the \Seen flag
    mail,             \* mail store: the content of each message
    sent,             \* SMTP: number of copies of message u delivered to destination d
    movedOut,         \* mail store: number of times message u left INBOX / Review
    emails_data,      \* web_dashboard.emails_data
    pending_reviews,  \* web_dashboard.pending_reviews
    is_running,       \* web_dashboard.is_running
    poll,             \* the threads running process_emails, with its locals
    op,               \* the threads running approve_email / reject_email
    restarts          \* number of process restarts so far

\* the routing pipeline exercised on its own: one Router, one analyze()
\* call, one confidence value
VARIABLES
    router,           \* the Router object: rules, default_action, _analyzer
    analyze_calls,    \* number of calls of the router's _analyzer.analyze
    routed,           \* the last Router.decide call: its email and its result
    analysis,         \* an analyzer's analyze() call: configuration, loop state, result
    val,              \* the argument of _normalize_confidence
    normalized,       \* the value _normalize_confidence returned
    json_data,        \* the JSON object _parse_response works on
    parsed,           \* the AnalysisResult _parse_response returned
    response_text,    \* the argument of _extract_json_object, in three parts
    extracted         \* what _extract_json_object did with it

vars == <<folder, seen, mail, sent, movedOut, emails_data, pending_reviews,
          is_running, poll, op, restarts,
          router, analyze_calls, routed, analysis, val, normalized,
          json_data, parsed, response_text, extracted>>

parsing == <<json_data, parsed, response_text, extracted>>

pipeline == <<router, analyze_calls, routed, analysis, val, normalized, parsing>>

store == <<folder, seen, mail, sent, movedOut>>

\* connected: the thread's IMAPClient holds a connection (_client is set);
\* stopped is a history field: stop_watching was called since this watch
\* loop was started
IdlePoller ==
    [pc |-> "dead", connected |-> FALSE, existing_uids |-> {},
     review_emails |-> <<>>, new_emails |-> <<>>, idx |-> 0,
     decision |-> NoDecision, di |-> 0, stopped |-> FALSE]

\* diag: the diagnostic the handler's last run printed; connected: the
\* IMAPClient of the handler's last run still holds a connection
IdleHandler ==
    [pc |-> "idle", kind |-> "", uid |-> 0, destinations |-> <<>>, di |-> 0,
     diag |-> "", connected |-> FALSE]

\* lines 1277-1279 and 1361-1363: the handler returns after the diagnostic
NotPending == [IdleHandler EXCEPT !.diag = "not in pending reviews"]

\* IMAPClient.connect raising after IMAPLib(...) returned (starttls, login or
\* select_folder fails): __enter__ did not complete, so __exit__ never runs
\* and _client keeps the open connection
ConnectLeaks == [IdleHandler EXCEPT !.connected = TRUE]

EmailStatus(uid, status, needs_review) ==
    [uid |-> uid, status |-> status, forward_to |-> <<>>, category |-> "",
     confidence |-> 0, needs_review |-> needs_review]

\* no Router constructed, no decide call made
NoRouter == [constructed |-> FALSE]

NotRouted == [present |-> FALSE]

\* no analyze() call started
NoAnalysis == [pc |-> "none"]

\* _normalize_confidence not called
NotNormalized == [present |-> FALSE]

Unset == [kind |-> "absent"]

RouterIdle ==
    /\ router = NoRouter
    /\ analyze_calls = 0
    /\ routed = NotRouted

AnalyzerIdle == analysis = NoAnalysis

ConfidenceIdle ==
    /\ val = Unset
    /\ normalized = NotNormalized

\* _parse_response and _extract_json_object not called
NotParsed == [present |-> FALSE]

NotExtracted == [present |-> FALSE]

NoObject ==
    [category |-> Absent, action |-> Absent, forward_to |-> Absent,
     confidence |-> Unset]

NoText3 == [prefix |-> <<>>, body |-> <<>>, suffix |-> <<>>]

ParserIdle ==
    /\ json_data = NoObject
    /\ parsed = NotParsed
    /\ response_text = NoText3
    /\ extracted = NotExtracted

DashboardInit ==
    /\ folder = [u \in UIDs |-> "none"]
    /\ seen = {}
    /\ mail = [u \in UIDs |-> FromOther]
    /\ sent = [u \in UIDs |-> [d \in Dests |-> 0]]
    /\ movedOut = [u \in UIDs |-> [INBOX |-> 0, Review |-> 0]]
    /\ emails_data = <<>>
    /\ pending_reviews = <<>>
    /\ is_running = FALSE
    /\ poll = [t \in Pollers |-> IdlePoller]
    /\ op = [h \in Handlers |-> IdleHandler]
    /\ restarts = 0

Init ==
    /\ DashboardInit
    /\ RouterIdle
    /\ AnalyzerIdle
    /\ ConfidenceIdle
    /\ ParserIdle

(***************************************************************************)
(* Helpers over the shared collections                                     *)
(***************************************************************************)
TrackedUids(data) == {data[i].uid : i \in 1..Len(data)}

Tracked(data, uid) == \E i \in 1..Len(data) : data[i].uid = uid

\* next(i for i, e in enumerate(emails_data) if e.uid == uid)
FirstIdx(data, uid) ==
    CHOOSE i \in 1..Len(data) :
        data[i].uid = uid /\ \A j \in 1..(i - 1) : data[j].uid # uid

RECURSIVE SetToSeq(_)
SetToSeq(S) ==
    IF S = {} THEN <<>>
    ELSE LET m == CHOOSE x \in S : \A y \in S : x <= y
         IN  <<m>> \o SetToSeq(S \ {m})

SeqToSet(q) == {q[i] : i \in 1..Len(q)}

HasPending(pending, uid) == uid \in DOMAIN pending

\* pending_reviews[uid] = entry
PutPending(pending, uid, decision) ==
    [u \in DOMAIN pending \cup {uid} |->
        IF u = uid THEN [decision |-> decision] ELSE pending[u]]

\* del pending_reviews[uid]; a missing key raises KeyError and changes nothing
DelPending(pending, uid) == [u \in DOMAIN pending \ {uid} |-> pending[u]]

(***************************************************************************)
(* Mail store and transport                                                *)
(***************************************************************************)
\* IMAPClient.fetch_from_folder / fetch_unread, as uid lists
FetchFromFolder(name) == SetToSeq({u \in UIDs : folder[u] = name})

\* a fetch that searches every folder instead of the inbox
FetchEveryFolder == SetToSeq({u \in UIDs : folder[u] # "none" /\ u \notin seen})

FetchUnread == SetToSeq({u \in UIDs : folder[u] = "INBOX" /\ u \notin seen})

\* IMAPClient.move_email: moving a uid the source folder does not hold
\* moves nothing
MoveEmail(uid, dst, src) ==
    IF folder[uid] = src
    THEN /\ folder' = [folder EXCEPT ![uid] = dst]
         /\ movedOut' = [movedOut EXCEPT ![uid][src] = @ + 1]
    ELSE UNCHANGED <<folder, movedOut>>

\* SMTPClient.forward_email succeeding
ForwardEmail(uid, dest) ==
    /\ sent[uid][dest] < MaxSends
    /\ sent' = [sent EXCEPT ![uid][dest] = @ + 1]

(***************************************************************************)
(* process_emails, one step per mail-store / transport / analyzer call     *)
(***************************************************************************)
SetPoll(t, rec) == poll' = [poll EXCEPT ![t] = rec]

\* the thread leaves process_emails: the with-block closes the connection;
\* a watch loop goes to sleep, a refresh thread ends
EndCycle(t) ==
    SetPoll(t, [IdlePoller EXCEPT !.pc = IF t \in Watchers THEN "sleep" ELSE "dead",
                                  !.stopped = poll[t].stopped])

SetStatus(data, uid, status) ==
    [data EXCEPT ![FirstIdx(data, uid)].status = status]

\* lines 978-997: records and pending entries for the Review folder's messages
RehydrateRecords(data, existing, revs) ==
    LET fresh == SelectSeq(revs, LAMBDA u : u \notin existing)
    IN  data \o [i \in 1..Len(fresh) |-> EmailStatus(fresh[i], "Review", TRUE)]

\* a rehydration that forgets to register the messages for approve / reject
RehydratePendingForgotten(pending, revs) == pending

RehydratePending(pending, revs) ==
    [u \in DOMAIN pending \cup SeqToSet(revs) |->
        IF u \in DOMAIN pending THEN pending[u] ELSE [decision |-> NoDecision]]

\* lines 1021-1028
AppendPending(data, new) ==
    data \o [i \in 1..Len(new) |-> EmailStatus(new[i], "Pending", FALSE)]

\* auto-approval that also lets rule decisions through, as the other entry
\* points do
AutoApproveRulesToo(decision) ==
    /\ decision.should_forward
    /\ decision.ai_result.present =>
           decision.ai_result.confidence > DashboardThreshold

\* line 1049
AutoApprove(decision) ==
    /\ decision.ai_result.present
    /\ decision.ai_result.confidence > DashboardThreshold
    /\ decision.should_forward

\* line 1051
IsQuarantine(decision) == decision.ai_result.category = "quarantine"

\* lines 1043-1046
StoreReasoning(data, uid, decision) ==
    IF decision.ai_result.present
    THEN [data EXCEPT ![FirstIdx(data, uid)].category = decision.ai_result.category,
                      ![FirstIdx(data, uid)].confidence = decision.ai_result.confidence]
    ELSE data

\* lines 1102-1104
MarkReview(data, uid, decision) ==
    [data EXCEPT ![FirstIdx(data, uid)].status = "Review",
                 ![FirstIdx(data, uid)].needs_review = TRUE,
                 ![FirstIdx(data, uid)].forward_to =
                     IF decision.should_forward THEN AllDestinations(decision)
                     ELSE <<>>]

\* lines 1062/1067 and 1071
MarkActed(data, uid, decision) ==
    [data EXCEPT ![FirstIdx(data, uid)].status =
                     IF IsQuarantine(decision) THEN "Quarantined" ELSE "Forwarded",
                 ![FirstIdx(data, uid)].forward_to = AllDestinations(decision)]

\* the for loop of line 1033 goes on to the next new email, or the cycle ends
NextEmail(t, data) ==
    IF poll[t].idx < Len(poll[t].new_emails)
    THEN /\ emails_data' = SetStatus(data, poll[t].new_emails[poll[t].idx + 1],
                                     "Processing")
         /\ SetPoll(t, [poll[t] EXCEPT !.pc = "decide", !.idx = @ + 1,
                                        !.decision = NoDecision, !.di = 0])
    ELSE /\ emails_data' = data
         /\ EndCycle(t)

\* lines 941-976: clients built, connection opened, folders created,
\* existing_uids taken
PollConnect(t, outcome) ==
    /\ poll[t].pc = "begin"
    /\ CASE outcome = "connected" ->
              SetPoll(t, [poll[t] EXCEPT !.pc = "review", !.connected = TRUE,
                             !.existing_uids = TrackedUids(emails_data)])
         [] outcome = "refused" -> EndCycle(t)
         [] outcome = "login failed" ->
              \* __enter__ raised: __exit__ does not run, _client stays set
              SetPoll(t, [IdlePoller EXCEPT
                             !.pc = IF t \in Watchers THEN "sleep" ELSE "dead",
                             !.stopped = poll[t].stopped, !.connected = TRUE])
    /\ UNCHANGED <<store, emails_data, pending_reviews, is_running, op, restarts, pipeline>>

\* lines 977-997, fetch_from_folder returning
RehydrateOK(t) ==
    LET revs == FetchFromFolder("Review")
    IN  /\ emails_data' = RehydrateRecords(emails_data, poll[t].existing_uids, revs)
        /\ pending_reviews' = RehydratePending(pending_reviews, revs)
        /\ SetPoll(t, [poll[t] EXCEPT !.pc = "fetch",
                !.review_emails = revs,
                !.existing_uids = @ \cup SeqToSet(revs)])

\* lines 977-997
PollRehydrate(t) ==
    /\ poll[t].pc = "review"
    /\ \/ RehydrateOK(t)
       \/ /\ EndCycle(t)
          /\ UNCHANGED <<emails_data, pending_reviews>>
    /\ UNCHANGED <<store, is_running, op, restarts, pipeline>>

\* line 1013
NewEmails(emails, existing) == SelectSeq(emails, LAMBDA u : u \notin existing)

\* lines 999-1038, fetch_unread returning
FetchUnreadOK(t) ==
    LET new == NewEmails(FetchUnread, poll[t].existing_uids)
    IN  IF new = <<>>
        THEN EndCycle(t) /\ UNCHANGED emails_data
        ELSE /\ emails_data' = SetStatus(AppendPending(emails_data, new),
                                         new[1], "Processing")
             /\ SetPoll(t, [poll[t] EXCEPT !.pc = "decide",
                                !.new_emails = new, !.idx = 1])

\* lines 999-1038
PollFetchUnread(t) ==
    /\ poll[t].pc = "fetch"
    /\ \/ FetchUnreadOK(t)
       \/ EndCycle(t) /\ UNCHANGED emails_data
    /\ UNCHANGED <<store, pending_reviews, is_running, op, restarts, pipeline>>

\* lines 1040-1051 and, for the review branch, 1102-1104
PollDecide(t, ai) ==
    /\ poll[t].pc = "decide"
    /\ LET uid == poll[t].new_emails[poll[t].idx]
           decision == RouterDecide(RouterInit(Config), mail[uid], ai)
           data == StoreReasoning(emails_data, uid, decision)
       IN  IF AutoApprove(decision)
           THEN /\ emails_data' = data
                /\ SetPoll(t, [poll[t] EXCEPT !.decision = decision, !.di = 1,
                       !.pc = IF AllDestinations(decision) = <<>>
                              THEN "move" ELSE "forward"])
           ELSE /\ emails_data' = MarkReview(data, uid, decision)
                /\ SetPoll(t, [poll[t] EXCEPT !.decision = decision,
                                               !.pc = "moveReview"])
    /\ UNCHANGED <<store, pending_reviews, is_running, op, restarts, pipeline>>

\* lines 1056-1057, with the handler of lines 1096-1098
PollForward(t) ==
    /\ poll[t].pc = "forward"
    /\ LET uid == poll[t].new_emails[poll[t].idx]
           dests == AllDestinations(poll[t].decision)
       IN  \/ /\ ForwardEmail(uid, dests[poll[t].di])
              /\ SetPoll(t, [poll[t] EXCEPT !.di = @ + 1,
                     !.pc = IF poll[t].di = Len(dests) THEN "move" ELSE "forward"])
              /\ UNCHANGED emails_data
           \/ /\ NextEmail(t, SetStatus(emails_data, uid, "Error"))
              /\ UNCHANGED sent
    /\ UNCHANGED <<folder, seen, mail, movedOut, pending_reviews, is_running,
                   op, restarts, pipeline>>

\* lines 1060-1071, with the handler of lines 1096-1098
PollMove(t) ==
    /\ poll[t].pc = "move"
    /\ LET uid == poll[t].new_emails[poll[t].idx]
           decision == poll[t].decision
       IN  \/ /\ MoveEmail(uid, IF IsQuarantine(decision) THEN "Quarantine"
                                ELSE "Processed", "INBOX")
              /\ NextEmail(t, MarkActed(emails_data, uid, decision))
           \/ /\ NextEmail(t, SetStatus(emails_data, uid, "Error"))
              /\ UNCHANGED <<folder, movedOut>>
    /\ UNCHANGED <<seen, mail, sent, pending_reviews, is_running, op, restarts, pipeline>>

\* lines 1107-1114; a failing move is caught only at line 1147
PollMoveReview(t) ==
    /\ poll[t].pc = "moveReview"
    /\ LET uid == poll[t].new_emails[poll[t].idx]
       IN  \/ /\ MoveEmail(uid, "Review", "INBOX")
              /\ pending_reviews' = PutPending(pending_reviews, uid,
                                               poll[t].decision)
              /\ NextEmail(t, emails_data)
           \/ /\ EndCycle(t)
              /\ UNCHANGED <<folder, movedOut, emails_data, pending_reviews>>
    /\ UNCHANGED <<seen, mail, sent, is_running, op, restarts, pipeline>>

(***************************************************************************)
(* watch_loop, start_watching, stop_watching, refresh_once                 *)
(***************************************************************************)
\* lines 1237-1245
StartWatching(w) ==
    /\ poll[w].pc = "dead"
    /\ IF ~is_running
       THEN /\ is_running' = TRUE
            /\ SetPoll(w, [poll[w] EXCEPT !.pc = "top"])
       ELSE UNCHANGED <<is_running, poll>>
    /\ UNCHANGED <<store, emails_data, pending_reviews, op, restarts, pipeline>>

\* lines 1248-1253
StopWatching ==
    /\ is_running' = FALSE
    /\ poll' = [t \in Pollers |->
                  IF t \in Watchers /\ poll[t].pc # "dead"
                  THEN [poll[t] EXCEPT !.stopped = TRUE] ELSE poll[t]]
    /\ UNCHANGED <<store, emails_data, pending_reviews, op, restarts, pipeline>>

\* line 1154
WatchTop(w) ==
    /\ poll[w].pc = "top"
    /\ SetPoll(w, IF is_running THEN [poll[w] EXCEPT !.pc = "begin"]
                   ELSE IdlePoller)
    /\ UNCHANGED <<store, emails_data, pending_reviews, is_running, op, restarts, pipeline>>

\* line 1157 returning
WatchWake(w) ==
    /\ poll[w].pc = "sleep"
    /\ SetPoll(w, [poll[w] EXCEPT !.pc = "top"])
    /\ UNCHANGED <<store, emails_data, pending_reviews, is_running, op, restarts, pipeline>>

\* lines 1256-1259
RefreshOnce(r) ==
    /\ poll[r].pc = "dead"
    /\ SetPoll(r, [poll[r] EXCEPT !.pc = "begin"])
    /\ UNCHANGED <<store, emails_data, pending_reviews, is_running, op, restarts, pipeline>>

(***************************************************************************)
(* approve_email and reject_email                                          *)
(***************************************************************************)
SetOp(h, rec) == op' = [op EXCEPT ![h] = rec]

\* lines 1305-1314
ApproveDestinations(data, decision, uid) ==
    LET fromDecision == IF decision.present /\ decision.should_forward
                        THEN AllDestinations(decision) ELSE <<>>
        shown == {i \in 1..Len(data) : data[i].uid = uid /\ data[i].forward_to # <<>>}
    IN  IF fromDecision # <<>> THEN fromDecision
        ELSE IF shown # {}
             THEN data[CHOOSE i \in shown : \A j \in shown : i <= j].forward_to
             ELSE <<>>

\* lines 1329-1334
ApproveUpdate(data, uid, destinations) ==
    IF Tracked(data, uid)
    THEN [data EXCEPT ![FirstIdx(data, uid)].status = "Forwarded",
                      ![FirstIdx(data, uid)].needs_review = FALSE,
                      ![FirstIdx(data, uid)].forward_to = destinations]
    ELSE data

\* lines 1383-1387
RejectUpdate(data, uid) ==
    IF Tracked(data, uid)
    THEN [data EXCEPT ![FirstIdx(data, uid)].status = "Skipped",
                      ![FirstIdx(data, uid)].needs_review = FALSE]
    ELSE data

\* an approve that does not look the id up in pending_reviews first
ApproveBeginUnchecked(h, uid) ==
    /\ op[h].pc = "idle"
    /\ emails_data' = ApproveUpdate(emails_data, uid, <<>>)
    /\ pending_reviews' = DelPending(pending_reviews, uid)
    /\ SetOp(h, IdleHandler)
    /\ UNCHANGED <<store, is_running, poll, restarts, pipeline>>

\* lines 1266-1316; with no destination the handler goes straight to
\* lines 1326-1340
ApproveBegin(h, uid) ==
    /\ op[h].pc = "idle"
    /\ IF ~HasPending(pending_reviews, uid)
       THEN /\ SetOp(h, NotPending)
            /\ UNCHANGED <<emails_data, pending_reviews>>
       ELSE LET dests == ApproveDestinations(emails_data,
                             pending_reviews[uid].decision, uid)
            IN  IF dests # <<>>
                THEN /\ SetOp(h, [pc |-> "forward", kind |-> "approve", uid |-> uid,
                                  destinations |-> dests, di |-> 1,
                                  diag |-> "", connected |-> FALSE])
                     /\ UNCHANGED <<emails_data, pending_reviews>>
                ELSE /\ emails_data' = ApproveUpdate(emails_data, uid, dests)
                     /\ pending_reviews' = DelPending(pending_reviews, uid)
                     /\ SetOp(h, IdleHandler)
    /\ UNCHANGED <<store, is_running, poll, restarts, pipeline>>

\* lines 1317-1318, with the handler of lines 1342-1343
ApproveForward(h) ==
    /\ op[h].pc = "forward"
    /\ \/ /\ ForwardEmail(op[h].uid, op[h].destinations[op[h].di])
          /\ SetOp(h, [op[h] EXCEPT !.di = @ + 1,
                 !.pc = IF op[h].di = Len(op[h].destinations)
                        THEN "move" ELSE "forward"])
       \/ /\ SetOp(h, IdleHandler)
          /\ UNCHANGED sent
    /\ UNCHANGED <<folder, seen, mail, movedOut, emails_data, pending_reviews,
                   is_running, poll, restarts, pipeline>>

\* an approve that only warns about a failing move, as reject_email does
ApproveMoveWarnOnly(h, outcome) ==
    /\ op[h].pc = "move"
    /\ op[h].kind = "approve"
    /\ IF outcome = "moved"
       THEN MoveEmail(op[h].uid, "Processed", "Review")
       ELSE UNCHANGED <<folder, movedOut>>
    /\ emails_data' = ApproveUpdate(emails_data, op[h].uid, op[h].destinations)
    /\ pending_reviews' = DelPending(pending_reviews, op[h].uid)
    /\ SetOp(h, IF outcome = "login failed" THEN ConnectLeaks ELSE IdleHandler)
    /\ UNCHANGED <<seen, mail, sent, is_running, poll, restarts, pipeline>>

\* lines 1323-1340, with the handler of lines 1342-1343
ApproveMove(h, outcome) ==
    /\ op[h].pc = "move"
    /\ op[h].kind = "approve"
    /\ IF outcome = "moved"
       THEN /\ MoveEmail(op[h].uid, "Processed", "Review")
            /\ emails_data' = ApproveUpdate(emails_data, op[h].uid,
                                            op[h].destinations)
            /\ pending_reviews' = DelPending(pending_reviews, op[h].uid)
            /\ SetOp(h, IdleHandler)
       ELSE /\ UNCHANGED <<folder, movedOut, emails_data, pending_reviews>>
            /\ SetOp(h, IF outcome = "login failed" THEN ConnectLeaks
                        ELSE IdleHandler)
    /\ UNCHANGED <<seen, mail, sent, is_running, poll, restarts, pipeline>>

\* lines 1350-1365
RejectBegin(h, uid) ==
    /\ op[h].pc = "idle"
    /\ IF ~HasPending(pending_reviews, uid)
       THEN SetOp(h, NotPending)
       ELSE SetOp(h, [pc |-> "move", kind |-> "reject", uid |-> uid,
                      destinations |-> <<>>, di |-> 0,
                      diag |-> "", connected |-> FALSE])
    /\ UNCHANGED <<store, emails_data, pending_reviews, is_running, poll, restarts, pipeline>>

\* lines 1368-1394; a failing move is only warned about
RejectMove(h, outcome) ==
    /\ op[h].pc = "move"
    /\ op[h].kind = "reject"
    /\ IF outcome = "moved"
       THEN /\ MoveEmail(op[h].uid, "Skipped", "Review")
            /\ SetOp(h, IdleHandler)
       ELSE /\ UNCHANGED <<folder, movedOut>>
            /\ SetOp(h, IF outcome = "login failed" THEN ConnectLeaks
                        ELSE IdleHandler)
    /\ emails_data' = RejectUpdate(emails_data, op[h].uid)
    /\ pending_reviews' = DelPending(pending_reviews, op[h].uid)
    /\ UNCHANGED <<seen, mail, sent, is_running, poll, restarts, pipeline>>

(***************************************************************************)
(* Environment: mail arriving, the mailbox owner reading a message, and    *)
(* the dashboard process being restarted                                   *)
(***************************************************************************)
Deliver(u) ==
    /\ folder[u] = "none"
    /\ \A v \in UIDs : v < u => folder[v] # "none"
    /\ folder' = [folder EXCEPT ![u] = "INBOX"]
    /\ \E m \in Mails : mail' = [mail EXCEPT ![u] = m]
    /\ UNCHANGED <<seen, sent, movedOut, emails_data, pending_reviews,
                   is_running, poll, op, restarts, pipeline>>

ReadByOwner(u) ==
    /\ folder[u] = "INBOX"
    /\ u \notin seen
    /\ Cardinality(seen) < MaxOwnerReads
    /\ seen' = seen \cup {u}
    /\ UNCHANGED <<folder, mail, sent, movedOut, emails_data, pending_reviews,
                   is_running, poll, op, restarts, pipeline>>

\* the module-level state of lines 21-25 is rebuilt, every thread is gone
Restart ==
    /\ restarts < MaxRestarts
    /\ restarts' = restarts + 1
    /\ emails_data' = <<>>
    /\ pending_reviews' = <<>>
    /\ is_running' = FALSE
    /\ poll' = [t \in Pollers |-> IdlePoller]
    /\ op' = [h \in Handlers |-> IdleHandler]
    /\ UNCHANGED <<store, pipeline>>

\* One dashboard process polled by hand (refresh), one operator action at a
\* time on a message the page lists for review, two messages, the Ollama
\* analyzer, connections that are made or refused
Next ==
    \/ \E r \in Refreshers : RefreshOnce(r)
    \/ \E t \in Refreshers, o \in {"connected", "refused"} : PollConnect(t, o)
    \/ \E t \in Refreshers : PollRehydrate(t)
    \/ \E t \in Refreshers : PollFetchUnread(t)
    \/ \E t \in Refreshers, ai \in OllamaResults : PollDecide(t, ai)
    \/ \E t \in Refreshers : PollForward(t)
    \/ \E t \in Refreshers : PollMove(t)
    \/ \E t \in Refreshers : PollMoveReview(t)
    \/ \E u \in DOMAIN pending_reviews : ApproveBegin("h1", u)
    \/ ApproveForward("h1")
    \/ \E o \in {"moved", "failed"} : ApproveMove("h1", o)
    \/ \E u \in DOMAIN pending_reviews : RejectBegin("h1", u)
    \/ \E o \in {"moved", "failed"} : RejectMove("h1", o)
    \/ \E u \in UIDs : Deliver(u)
    \/ \E u \in UIDs : ReadByOwner(u)
    \/ Restart

Spec == Init /\ [][Next]_vars

\* The watch loop, a manual refresh and two operator actions interleaved,
\* over one message
RacePollers == {"w1"} \cup Refreshers

NextRace ==
    \/ StartWatching("w1")
    \/ StopWatching
    \/ \E r \in Refreshers : RefreshOnce(r)
    \/ WatchTop("w1")
    \/ WatchWake("w1")
    \/ \E t \in RacePollers, o \in {"connected", "refused"} : PollConnect(t, o)
    \/ \E t \in RacePollers : PollRehydrate(t)
    \/ \E t \in RacePollers : PollFetchUnread(t)
    \/ \E t \in RacePollers, ai \in OllamaResults : PollDecide(t, ai)
    \/ \E t \in RacePollers : PollForward(t)
    \/ \E t \in RacePollers : PollMove(t)
    \/ \E t \in RacePollers : PollMoveReview(t)
    \/ \E h \in Handlers, u \in DOMAIN pending_reviews : ApproveBegin(h, u)
    \/ \E h \in Handlers : ApproveForward(h)
    \/ \E h \in Handlers, o \in {"moved", "failed"} : ApproveMove(h, o)
    \/ \E h \in Handlers, u \in DOMAIN pending_reviews : RejectBegin(h, u)
    \/ \E h \in Handlers, o \in {"moved", "failed"} : RejectMove(h, o)
    \/ Deliver(1)

SpecRace == Init /\ [][NextRace]_vars

\* One message, every analyzer result and every outcome of a connection;
\* the operator's requests carry any message id
NextOne ==
    \/ \E r \in Refreshers : RefreshOnce(r)
    \/ \E t \in Refreshers, o \in ConnectOutcomes : PollConnect(t, o)
    \/ \E t \in Refreshers : PollRehydrate(t)
    \/ \E t \in Refreshers : PollFetchUnread(t)
    \/ \E t \in Refreshers, ai \in AnalyzeResults : PollDecide(t, ai)
    \/ \E t \in Refreshers : PollForward(t)
    \/ \E t \in Refreshers : PollMove(t)
    \/ \E t \in Refreshers : PollMoveReview(t)
    \/ \E u \in UIDs : ApproveBegin("h1", u)
    \/ ApproveForward("h1")
    \/ \E o \in MoveOutcomes : ApproveMove("h1", o)
    \/ \E u \in UIDs : RejectBegin("h1", u)
    \/ \E o \in MoveOutcomes : RejectMove("h1", o)
    \/ Deliver(1)
    \/ Restart

SpecOne == Init /\ [][NextOne]_vars

\* Watch loops started and stopped by the operator, one message
NextWatch ==
    \/ \E w \in Watchers : StartWatching(w)
    \/ StopWatching
    \/ \E w \in Watchers : WatchTop(w)
    \/ \E w \in Watchers : WatchWake(w)
    \/ \E t \in Watchers, o \in {"connected", "refused"} : PollConnect(t, o)
    \/ \E t \in Watchers : PollRehydrate(t)
    \/ \E t \in Watchers : PollFetchUnread(t)
    \/ \E t \in Watchers, ai \in OllamaResults : PollDecide(t, ai)
    \/ \E t \in Watchers : PollForward(t)
    \/ \E t \in Watchers : PollMove(t)
    \/ \E t \in Watchers : PollMoveReview(t)
    \/ Deliver(1)

SpecWatch == Init /\ [][NextWatch]_vars

(***************************************************************************)
(* Poll cycles that keep running: refresh after refresh on two messages    *)
(* that nobody else touches, the mail store reachable, every later         *)
(* operation free to fail.  A refresh thread that can take a step          *)
(* eventually takes one.                                                   *)
(***************************************************************************)
CycleStep ==
    \/ \E r \in Refreshers : RefreshOnce(r)
    \/ \E t \in Refreshers : PollConnect(t, "connected")
    \/ \E t \in Refreshers : PollRehydrate(t)
    \/ \E t \in Refreshers : PollFetchUnread(t)
    \/ \E t \in Refreshers, ai \in OllamaResults : PollDecide(t, ai)
    \/ \E t \in Refreshers : PollForward(t)
    \/ \E t \in Refreshers : PollMove(t)
    \/ \E t \in Refreshers : PollMoveReview(t)

NextCycles ==
    \/ CycleStep
    \/ \E u \in UIDs : Deliver(u)

SpecCycles == Init /\ [][NextCycles]_vars /\ WF_vars(CycleStep)

(***************************************************************************)
(* The Router on its own: construction from a configuration, then decide   *)
(* calls on arbitrary messages with an analyzer answering arbitrarily      *)
(***************************************************************************)
MaxRules == 2
MaxAnalyzeCalls == 2

dashboard == <<store, emails_data, pending_reviews, is_running, poll, op, restarts>>

\* rules as load_config builds them from config.yaml: a sender pattern with
\* a wildcard, a subject keyword, two keywords searched in subject and body,
\* a rule without destination, a rule whose predicates are written but
\* empty (from: "" and subject: []), a rule without predicates
RulePool ==
    { [name |-> "vip", match_from |-> Some(<<"B", "*">>),
       match_subject |-> NoList, match_keywords |-> NoList,
       forward_to |-> "ceo-inbox@mail.local"],
      [name |-> "invoice", match_from |-> NoText,
       match_subject |-> Some(<< <<"A">> >>), match_keywords |-> NoList,
       forward_to |-> "vendors@mail.local"],
      [name |-> "phrase", match_from |-> NoText, match_subject |-> NoList,
       match_keywords |-> Some(<< <<"a", " ", "b">>, <<"B", "a">> >>),
       forward_to |-> "spam@mail.local"],
      [name |-> "mute", match_from |-> Some(<<"a">>),
       match_subject |-> Some(<< <<"b">> >>), match_keywords |-> NoList,
       forward_to |-> ""],
      [name |-> "blank", match_from |-> Some(<<>>),
       match_subject |-> Some(<<>>), match_keywords |-> NoList,
       forward_to |-> "vendors@mail.local"],
      [name |-> "all", match_from |-> NoText, match_subject |-> NoList,
       match_keywords |-> NoList, forward_to |-> "ceo-inbox@mail.local"] }

\* the ordered rule lists: up to MaxRules different rules
RuleLists ==
    UNION { {rules \in [1..n -> RulePool] :
                \A i, j \in 1..n : i # j => rules[i] # rules[j]} : n \in 0..MaxRules }

\* the arguments of Router(...)
RouterConfigs ==
    [rules : RuleLists, ai_enabled : BOOLEAN, ollama_model : {"", "qwen3"},
     gemini_api_key : {"", "key"}, default_action : {"analyze", "ai_route", "skip"}]

\* Email.to_dict() of the messages decide is called on
Emails ==
    [from : {<<"a">>, <<"B">>, <<"A", "b">>},
     subject : {<<>>, <<"a">>, <<"b", "A">>},
     body : {<<>>, <<"b">>}]

\* what the router's analyzer can answer: results just below and at the
\* router's threshold, a confident result without destination, the result
\* after exhausted retries, a result with two destinations
ThresholdResults ==
    {AnalysisResult("vendors@mail.local", "vendors", c) :
        c \in {RouterThreshold - 1, RouterThreshold}}
        \cup {AnalysisResult("", "vendors", ConfOne)}

RouterAnalyzeResults ==
    ThresholdResults \cup {RetriesExhausted, MultiCategoryResult}

\* Router(...): the Router and its analyzer are created
RouterConstruct(cfg) ==
    /\ router = NoRouter
    /\ router' = RouterInit(cfg)
    /\ analyze_calls' = 0
    /\ routed' = NotRouted
    /\ UNCHANGED <<dashboard, parsing, analysis, val, normalized>>

\* decide reaches self._analyzer.analyze(email_data)
InvokesAnalyzerAlways(r, email) == r.analyzer # None

InvokesAnalyzer(r, email) ==
    FirstMatch(r.rules, email, 1) = 0 /\ AnalyzerEnabled(r)

\* router.decide(email), the analyzer answering ai if it is called
RouterDecideCall(email, ai) ==
    /\ router # NoRouter
    /\ IF InvokesAnalyzer(router, email)
       THEN /\ analyze_calls < MaxAnalyzeCalls
            /\ analyze_calls' = analyze_calls + 1
       ELSE analyze_calls' = analyze_calls
    /\ routed' = [present |-> TRUE, email |-> email,
                  decision |-> RouterDecide(router, email, ai)]
    /\ UNCHANGED <<router, dashboard, parsing, analysis, val, normalized>>

NextRouter ==
    \/ \E cfg \in RouterConfigs : RouterConstruct(cfg)
    \/ \E email \in Emails, ai \in RouterAnalyzeResults : RouterDecideCall(email, ai)

SpecRouter == Init /\ [][NextRouter]_vars

(***************************************************************************)
(* The analyzers on their own: one analyze() call of OllamaAnalyzer or     *)
(* GeminiAnalyzer, the backend replying arbitrarily to each request        *)
(* (debug_accept_thinking_field keeps its default, False)                  *)
(***************************************************************************)
MaxRetries == 2

\* the JSON object {} and a response text without any labelled line
EmptyObject ==
    [category |-> Absent, action |-> Absent, forward_to |-> Absent,
     confidence |-> Unset]

NoLines == [forward_to |-> Absent, category |-> Absent, confidence |-> Unset]

\* values of the "confidence" key in the model's JSON object
RawConfidences ==
    { [kind |-> "num", v |-> 850000], [kind |-> "num", v |-> 0 - 500],
      [kind |-> "str", v |-> 9000], [kind |-> "bool", b |-> TRUE],
      [kind |-> "nan"], [kind |-> "bad"], Unset }

\* JSON objects the local model can answer with: the ones above, every raw
\* confidence, an action the parser does not know, the empty object
OllamaOutputs ==
    ModelOutputs
        \cup { [category |-> "Vendors", action |-> "Forward",
                forward_to |-> "vendors@mail.local", confidence |-> c] :
                  c \in RawConfidences }
        \cup { [category |-> "vendors", action |-> "archive",
                forward_to |-> "vendors@mail.local",
                confidence |-> [kind |-> "num", v |-> 9000]],
               EmptyObject }

\* how one _call_ollama can end: the request fails, the response field is
\* blank, the text holds no {...}, the {...} is not JSON, or it is an object
OllamaReplies ==
    { [kind |-> k, data |-> EmptyObject] : k \in {"error", "blank", "prose", "broken"} }
        \cup { [kind |-> "json", data |-> o] : o \in OllamaOutputs }

\* the labelled lines of a hosted-model response: the text after
\* CONFIDENCE: is a number ("str"), not a number ("bad") or no such line
GeminiOutputs ==
    { [forward_to |-> "vendors@mail.local", category |-> "Vendors",
       confidence |-> c] :
          c \in { [kind |-> "str", v |-> 9000], [kind |-> "str", v |-> 950000],
                  [kind |-> "str", v |-> 0 - 5000], [kind |-> "bad"], Unset } }

\* how generate_content can end: it raises, the text is empty, the text has
\* none of the labelled lines, or it has them
GeminiReplies ==
    { [kind |-> k, data |-> NoLines] : k \in {"error", "blank", "prose"} }
        \cup { [kind |-> "lines", data |-> l] : l \in GeminiOutputs }

\* str(e) of the exception an attempt ends with
ErrorOf(reply) ==
    CASE reply.kind = "error" -> "request failed"
      [] reply.kind = "blank" -> "Empty LLM output (response was blank)"
      [] reply.kind = "prose" -> "No JSON found in response"
      [] reply.kind = "broken" -> "Invalid JSON"

\* GeminiAnalyzer._parse_response
GeminiDefaultConfidence == 5000

GeminiConfidence(c) == IF c.kind = "str" THEN c.v ELSE GeminiDefaultConfidence

GeminiParseResponse(data) ==
    AnalysisResult(StrStrip(Get(data, "forward_to", "")),
                   StrNorm(Get(data, "category", "unknown")),
                   GeminiConfidence(data.confidence))

\* GeminiAnalyzer.analyze when generate_content or the parser raises
GeminiFailed == AnalysisResult("", "error", 0)

\* GeminiAnalyzer.analyze without destinations
GeminiNoDestinations == AnalysisResult("", "unknown", 0)

\* analyze() has been called on an analyzer built with these arguments
AnalyzeCalled(backend, has_destinations, max_retries) ==
    [pc |-> "called", backend |-> backend, has_destinations |-> has_destinations,
     max_retries |-> max_retries, attempt |-> 0, backend_calls |-> 0,
     last_reply |-> "", last_err |-> "", result |-> NoResult]

InitAnalyzer ==
    /\ DashboardInit
    /\ RouterIdle
    /\ ConfidenceIdle
    /\ ParserIdle
    /\ analysis \in {AnalyzeCalled(b, d, r) :
                        b \in {"ollama", "gemini"}, d \in BOOLEAN, r \in 0..MaxRetries}

\* one more value than needed in range(self.max_retries + 1)
AttemptsLeftOneMore(a) == a.attempt + 1 < a.max_retries + 2

\* range(self.max_retries + 1) has a value after a.attempt
AttemptsLeft(a) == a.attempt + 1 < a.max_retries + 1

\* one iteration of the loop of OllamaAnalyzer.analyze and, after the last
\* one, the return that follows the loop
OllamaAttempt(reply) ==
    /\ analysis.pc = "called"
    /\ analysis.backend = "ollama"
    /\ LET called == [analysis EXCEPT !.backend_calls = @ + 1,
                                      !.last_reply = reply.kind]
       IN  analysis' =
               IF reply.kind = "json" THEN
                   [called EXCEPT !.result = ParseResponse(reply.data),
                                  !.pc = "returned"]
               ELSE IF AttemptsLeft(analysis) THEN
                   [called EXCEPT !.last_err = ErrorOf(reply),
                                  !.attempt = @ + 1]
               ELSE
                   [called EXCEPT !.last_err = ErrorOf(reply),
                                  !.result = RetriesExhausted,
                                  !.pc = "returned"]
    /\ UNCHANGED <<dashboard, parsing, router, analyze_calls, routed, val, normalized>>

\* GeminiAnalyzer.analyze
GeminiAnalyze(reply) ==
    /\ analysis.pc = "called"
    /\ analysis.backend = "gemini"
    /\ LET called == [analysis EXCEPT !.backend_calls = @ + 1,
                                      !.last_reply = reply.kind]
       IN  analysis' =
               IF ~analysis.has_destinations THEN
                   [analysis EXCEPT !.result = GeminiNoDestinations,
                                    !.pc = "returned"]
               ELSE IF reply.kind = "error" THEN
                   [called EXCEPT !.last_err = ErrorOf(reply),
                                  !.result = GeminiFailed,
                                  !.pc = "returned"]
               ELSE
                   [called EXCEPT !.result = GeminiParseResponse(reply.data),
                                  !.pc = "returned"]
    /\ UNCHANGED <<dashboard, parsing, router, analyze_calls, routed, val, normalized>>

NextAnalyzer ==
    \/ \E reply \in OllamaReplies : OllamaAttempt(reply)
    \/ \E reply \in GeminiReplies : GeminiAnalyze(reply)

\* every request ends (request_timeout) and the loop goes on by itself
SpecAnalyzer == InitAnalyzer /\ [][NextAnalyzer]_vars /\ WF_vars(NextAnalyzer)

(***************************************************************************)
(* _normalize_confidence on its own: the value is drawn, then normalized   *)
(***************************************************************************)
\* numbers from -0.5 to 1.5 in steps of 0.01, and percentages above
ConfidenceNumbers ==
    {100 * k : k \in (0 - 50)..150} \cup {850000, 1000000, 1000100, 2500000}

\* every value data.get("confidence", 0.0) can hand to _normalize_confidence
ConfidenceValues ==
    { [kind |-> "num", v |-> n] : n \in ConfidenceNumbers }
        \cup { [kind |-> "str", v |-> n] : n \in ConfidenceNumbers }
        \cup { [kind |-> "bool", b |-> b] : b \in BOOLEAN }
        \cup { [kind |-> "nan"], [kind |-> "bad"], Unset }

InitConfidence ==
    /\ DashboardInit
    /\ RouterIdle
    /\ AnalyzerIdle
    /\ ParserIdle
    /\ val \in ConfidenceValues
    /\ normalized = NotNormalized

\* confidence = self._normalize_confidence(data.get("confidence", 0.0))
Normalize ==
    /\ ~normalized.present
    /\ normalized' = [present |-> TRUE,
                      v |-> NormalizeConfidence(GetConfidence([confidence |-> val]))]
    /\ UNCHANGED <<dashboard, parsing, router, analyze_calls, routed, analysis, val>>

NextConfidence == Normalize

SpecConfidence == InitConfidence /\ [][NextConfidence]_vars

(***************************************************************************)
(* _parse_response on its own: the JSON object is drawn, then parsed       *)
(***************************************************************************)
\* the JSON objects _extract_json_object can hand over: every key missing,
\* null or holding one of the strings a model writes
JsonObjects ==
    [category : {Absent, None, "Vendors", "spam"},
     action : {Absent, None, "SPAM", " spam ", "Forward", "forward",
               "no_forward", "NEEDS_REVIEW", "Needs-Review", "archive", " "},
     forward_to : {Absent, None, "null", "NULL", "Null", " ",
                   "vendors@mail.local"},
     confidence : {Unset, [kind |-> "num", v |-> 9000],
                   [kind |-> "num", v |-> 850000], [kind |-> "bad"]}]

InitParse ==
    /\ DashboardInit
    /\ RouterIdle
    /\ AnalyzerIdle
    /\ ConfidenceIdle
    /\ json_data \in JsonObjects
    /\ parsed = NotParsed
    /\ response_text = NoText3
    /\ extracted = NotExtracted

\* parsed = self._parse_response(raw), after the object was extracted
Parse ==
    /\ ~parsed.present
    /\ parsed' = ParseResponse(json_data)
    /\ UNCHANGED <<dashboard, router, analyze_calls, routed, analysis, val,
                   normalized, json_data, response_text, extracted>>

NextParse == Parse

SpecParse == InitParse /\ [][NextParse]_vars

(***************************************************************************)
(* _extract_json_object on its own.  A response text is a sequence of      *)
(* tokens: "{" and "}", "," and " ", "x" (a character of prose), "p" (a    *)
(* member such as "a": 1), "s" (a member whose string value holds a        *)
(* typographic apostrophe) and "t" (the same member with a plain           *)
(* apostrophe).  A parsed object is the sequence of its members.           *)
(***************************************************************************)
MaxAround == 2

Members == {"p", "s", "t"}

NoSpaces(s) == SelectSeq(s, LAMBDA c : c # " ")

RECURSIVE StripLeft(_)
StripLeft(s) ==
    IF s # <<>> /\ Head(s) = " " THEN StripLeft(Tail(s)) ELSE s

RECURSIVE StripRight(_)
StripRight(s) ==
    IF s # <<>> /\ s[Len(s)] = " " THEN StripRight(SubSeq(s, 1, Len(s) - 1)) ELSE s

\* str.strip()
Strip(s) == StripRight(StripLeft(s))

JsonFailed(err) == [ok |-> FALSE, obj |-> <<>>, err |-> err]

\* json.loads: one object, its members separated by commas, white space
\* between tokens ignored, nothing before or after it
JsonLoads(s) ==
    LET t == NoSpaces(s)
        inner == SubSeq(t, 2, Len(t) - 1)
    IN  IF /\ Len(t) >= 2
           /\ t[1] = "{"
           /\ t[Len(t)] = "}"
           /\ Len(inner) = 0 \/ Len(inner) % 2 = 1
           /\ \A i \in 1..Len(inner) :
                  IF i % 2 = 1 THEN inner[i] \in Members ELSE inner[i] = ","
        THEN [ok |-> TRUE, obj |-> SelectSeq(inner, LAMBDA c : c \in Members),
              err |-> ""]
        ELSE JsonFailed("Invalid JSON")

\* _sanitize_common_json_issues: typographic quotes become plain ones, a
\* comma before a closing brace goes away together with the white space
RECURSIVE SanitizeCommonJsonIssues(_)
SanitizeCommonJsonIssues(s) ==
    IF s = <<>> THEN <<>>
    ELSE IF Head(s) = "," /\ StripLeft(Tail(s)) # <<>>
                          /\ Head(StripLeft(Tail(s))) = "}"
         THEN SanitizeCommonJsonIssues(StripLeft(Tail(s)))
    ELSE <<IF Head(s) = "s" THEN "t" ELSE Head(s)>>
             \o SanitizeCommonJsonIssues(Tail(s))

Positions(s, c) == {i \in 1..Len(s) : s[i] = c}

Least(S) == CHOOSE i \in S : \A j \in S : i <= j

Greatest(S) == CHOOSE i \in S : \A j \in S : i >= j

\* re.search(r"\{[\s\S]*\}", s): from the first "{" to the last "}"
BraceRegion(s) ==
    IF /\ Positions(s, "{") # {}
       /\ Positions(s, "}") # {}
       /\ Least(Positions(s, "{")) < Greatest(Positions(s, "}"))
    THEN [found |-> TRUE,
          region |-> SubSeq(s, Least(Positions(s, "{")), Greatest(Positions(s, "}")))]
    ELSE [found |-> FALSE, region |-> <<>>]

ExtractJsonObject(txt) ==
    LET s == Strip(txt)
        m == BraceRegion(s)
    IN  IF s # <<>> /\ s[1] = "{" /\ s[Len(s)] = "}" /\ JsonLoads(s).ok
        THEN JsonLoads(s)
        ELSE IF ~m.found THEN JsonFailed("No JSON found in response")
        ELSE JsonLoads(SanitizeCommonJsonIssues(Strip(m.region)))

\* text around the object: prose and braces, up to MaxAround tokens
Around == UNION {[1..n -> {"x", "{", "}"}] : n \in 0..MaxAround}

\* the middle part: objects that parse as they are, an object with a
\* trailing comma, text that is no object
Bodies ==
    { <<"{", "}">>, <<"{", "p", "}">>, <<"{", "s", "}">>,
      <<"{", "p", ",", "s", "}">>, <<"{", "p", ",", " ", "}">>,
      <<"{", ",", "}">>, <<"{", "p">>, <<"x">>, <<>> }

InitExtract ==
    /\ DashboardInit
    /\ RouterIdle
    /\ AnalyzerIdle
    /\ ConfidenceIdle
    /\ json_data = NoObject
    /\ parsed = NotParsed
    /\ response_text \in [prefix : Around, body : Bodies, suffix : Around]
    /\ extracted = NotExtracted

\* data = self._extract_json_object(response_text), on the whole text and
\* on its middle part alone
Extract ==
    /\ ~extracted.present
    /\ extracted' =
           [present |-> TRUE,
            whole |-> ExtractJsonObject(response_text.prefix
                          \o response_text.body \o response_text.suffix),
            alone |-> ExtractJsonObject(response_text.body)]
    /\ UNCHANGED <<dashboard, router, analyze_calls, routed, analysis, val,
                   normalized, json_data, parsed, response_text>>

NextExtract == Extract

SpecExtract == InitExtract /\ [][NextExtract]_vars

TypeOK ==
    /\ folder \in [UIDs -> Folders \cup {"none"}]
    /\ seen \subseteq UIDs
    /\ is_running \in BOOLEAN
    /\ \A i \in 1..Len(emails_data) :
          emails_data[i].status \in {"Pending", "Processing", "Forwarded",
              "Quarantined", "Review", "Skipped", "Error"}
    /\ DOMAIN pending_reviews \subseteq UIDs

(***************************************************************************)
(* Properties                                                              *)
(***************************************************************************)
StatusOf(data, uid) == data[FirstIdx(data, uid)].status

HasRecord(data, uid, status, needs_review) ==
    \E i \in 1..Len(data) :
        /\ data[i].uid = uid
        /\ data[i].status = status
        /\ data[i].needs_review = needs_review

\* C1: under every interleaving of watch-loop cycles, manual refresh cycles
\* and operator approve / reject actions, a message is forwarded to any
\* given destination at most once and leaves INBOX, and Review, at most once.
C1_AtMostOneTerminalAction ==
    \A u \in UIDs :
        /\ \A d \in Dests : sent[u][d] <= 1
        /\ movedOut[u].INBOX <= 1
        /\ movedOut[u].Review <= 1

\* C2: when a poll cycle fetches the unread messages, every message whose
\* record is in state Error and that is still unread in INBOX is among the
\* messages the cycle goes on to process.
C2_ErrorRetriedNextCycle ==
    [][\A t \in Pollers :
          (poll[t].pc = "fetch" /\ FetchUnreadOK(t)) =>
              \A u \in UIDs :
                  ( /\ Tracked(emails_data, u)
                    /\ StatusOf(emails_data, u) = "Error"
                    /\ folder[u] = "INBOX"
                    /\ u \notin seen )
                  => ( /\ poll'[t].pc = "decide"
                       /\ u \in SeqToSet(poll'[t].new_emails) )]_vars

\* C3: the step of a poll cycle that reads the Review folder leaves every
\* message found there with a pending-review entry and, if it was not yet
\* tracked, with a record in state Review with needs_review true; and the
\* cycle fetches the unread inbox messages only after that step, when every
\* message it found in Review is tracked.
C3_RehydrateBeforeFetch ==
    [][\A t \in Pollers :
          /\ (poll[t].pc = "review" /\ RehydrateOK(t)) =>
                \A u \in UIDs :
                    folder[u] = "Review" =>
                        /\ HasPending(pending_reviews', u)
                        /\ ~Tracked(emails_data, u) =>
                               HasRecord(emails_data', u, "Review", TRUE)
          /\ (poll'[t].pc = "decide" /\ poll[t].pc # "decide"
                  /\ poll[t].new_emails = <<>>) =>
                /\ poll[t].pc = "fetch"
                /\ \A u \in SeqToSet(poll[t].review_emails) :
                       Tracked(emails_data, u)]_vars

\* C3 witness: after a restart a cycle has rehydrated a message of the
\* Review folder and is about to fetch the unread messages
C3_Witness ==
    \E t \in Pollers, u \in UIDs :
        /\ restarts = 1
        /\ poll[t].pc = "fetch"
        /\ u \in SeqToSet(poll[t].review_emails)
        /\ HasPending(pending_reviews, u)
        /\ ~pending_reviews[u].decision.present
        /\ HasRecord(emails_data, u, "Review", TRUE)

\* an AI decision that suggests a destination but stays under the router's
\* threshold
LowConfidenceSuggestion(decision) ==
    /\ decision.present
    /\ decision.ai_result.present
    /\ decision.ai_result.forward_to # ""
    /\ ~decision.should_forward

\* this step completes an operator approve of message u
OperatorApproved(u) ==
    /\ HasPending(pending_reviews, u)
    /\ ~HasPending(pending_reviews', u)
    /\ Tracked(emails_data', u)
    /\ StatusOf(emails_data', u) = "Forwarded"

\* C4: a poll cycle parks an AI decision with a suggested destination and a
\* confidence under the threshold in Review, and the operator approve that
\* resolves it has sent the message to the suggested destination and leaves
\* it in the Processed folder, in state Forwarded.
C4_ApproveForwardsSuggestion ==
    [][/\ \A t \in Pollers :
             ( /\ poll[t].pc = "decide"
               /\ LowConfidenceSuggestion(poll'[t].decision) )
             => poll'[t].pc = "moveReview"
       /\ \A u \in UIDs :
             ( /\ OperatorApproved(u)
               /\ LowConfidenceSuggestion(pending_reviews[u].decision) )
             => ( /\ sent'[u][pending_reviews[u].decision.forward_to] >= 1
                  /\ folder'[u] = "Processed" )]_vars

\* C5: after a restart, when an operator approve or reject removes the
\* pending-review entry of a message that was rehydrated from the Review
\* folder (an entry with no decision), the message has left the Review folder.
C5_RehydratedResolvable ==
    [][\A u \in UIDs :
          ( /\ HasPending(pending_reviews, u)
            /\ ~HasPending(pending_reviews', u)
            /\ restarts' = restarts
            /\ restarts > 0
            /\ ~pending_reviews[u].decision.present
            /\ folder[u] = "Review" )
          => folder'[u] # "Review"]_vars

IsRuleMail(u) == FirstMatch(Config.rules, mail[u], 1) # 0

RuleDecided(t) ==
    /\ poll[t].pc = "decide"
    /\ poll'[t].decision.present
    /\ poll'[t].decision.matched_rule # None
    /\ poll'[t].decision.should_forward

C7_SpamQuarantined ==
    [][\A t \in Pollers :
          ( /\ poll[t].pc = "move"
            /\ poll[t].decision.ai_result.category = "spam"
            /\ folder' # folder )
          => LET u == poll[t].new_emails[poll[t].idx]
             IN  /\ folder'[u] = "Quarantine"
                 /\ StatusOf(emails_data', u) = "Quarantined"]_vars

\* C8: for an AI decision with a destination, Router.decide's should_forward
\* is true exactly when the dashboard's poll cycle takes the auto-forward
\* branch rather than the review branch.
C8_SingleThreshold ==
    \A t \in Pollers :
        ( /\ poll[t].decision.present
          /\ poll[t].decision.ai_result.present
          /\ poll[t].decision.ai_result.forward_to # "" )
        => (poll[t].decision.should_forward
                <=> poll[t].pc \in {"forward", "move"})

\* C9: once no poll cycle is running, every record in state Review has its
\* message in the Review folder, needs_review true and a pending-review
\* entry under its message id.
C9_ReviewStateHasFolderAndEntry ==
    (\A t \in Pollers : poll[t].pc \in {"dead", "sleep", "top"}) =>
        \A i \in 1..Len(emails_data) :
            emails_data[i].status = "Review" =>
                /\ folder[emails_data[i].uid] = "Review"
                /\ emails_data[i].needs_review
                /\ HasPending(pending_reviews, emails_data[i].uid)

\* C10: the step that completes an operator reject of a message in the
\* Review folder leaves the message in Skipped, its record in state Skipped
\* with needs_review false, and no pending-review entry for it.
C10_RejectMovesToSkipped ==
    [][\A h \in Handlers :
          ( /\ op[h].pc = "move"
            /\ op[h].kind = "reject"
            /\ op'[h].pc = "idle"
            /\ restarts' = restarts
            /\ folder[op[h].uid] = "Review" )
          => /\ folder'[op[h].uid] = "Skipped"
             /\ ~HasPending(pending_reviews', op[h].uid)
             /\ HasRecord(emails_data', op[h].uid, "Skipped", FALSE)]_vars

TerminalStates == {"Forwarded", "Quarantined", "Skipped"}

\* the step is one of thread t's own steps through process_emails
PollStep(t) == [poll'[t] EXCEPT !.stopped = poll[t].stopped] # poll[t]

\* C11: while the process runs, a record whose state is Forwarded,
\* Quarantined or Skipped keeps that state in every step of a poll cycle or
\* of an operator action.
C11_TerminalStateIsFinal ==
    [][restarts' = restarts =>
          \A i \in 1..Len(emails_data) :
              emails_data[i].status \in TerminalStates =>
                  emails_data'[i].status = emails_data[i].status]_vars

\* C12: a step of a poll cycle that acts on one message of the batch
\* (forward, move to Processed / Quarantine, move to Review) while later
\* messages of the batch are waiting does not end the cycle: the cycle goes
\* on to decide the next message.
C12_FailureKeepsCycleGoing ==
    [][\A t \in Pollers :
          ( /\ poll[t].pc \in {"forward", "move", "moveReview"}
            /\ poll[t].idx < Len(poll[t].new_emails)
            /\ PollStep(t)
            /\ restarts' = restarts )
          => poll'[t].pc \in {"forward", "move", "decide"}]_vars

\* a step of a poll cycle in which the forward or the move it attempts for
\* the current message fails
PollOperationFails(t) ==
    /\ restarts' = restarts
    /\ PollStep(t)
    /\ \/ poll[t].pc = "forward" /\ sent' = sent
       \/ poll[t].pc \in {"move", "moveReview"} /\ folder' = folder

\* C13: when the forward or the move a poll cycle attempts for a message
\* fails, the record's state becomes Error and the message stays in INBOX,
\* unread and unmoved.
C13_FailureGivesErrorAndLeavesMessage ==
    [][\A t \in Pollers :
          PollOperationFails(t) =>
              LET u == poll[t].new_emails[poll[t].idx]
              IN  /\ StatusOf(emails_data', u) = "Error"
                  /\ folder'[u] = "INBOX"
                  /\ u \notin seen'
                  /\ movedOut'[u] = movedOut[u]]_vars

\* C14: an approve or a reject for a message id without a pending-review
\* entry forwards and moves nothing, leaves the records, the pending-review
\* map and every other thread as they are, and only prints the diagnostic.
C14_UnknownIdIsNoOp ==
    [][\A h \in Handlers, u \in UIDs :
          ( /\ ~HasPending(pending_reviews, u)
            /\ ApproveBegin(h, u) \/ RejectBegin(h, u) )
          => /\ UNCHANGED <<store, emails_data, pending_reviews, is_running,
                           poll, restarts>>
             /\ op' = [op EXCEPT ![h] = NotPending]]_vars

\* C14 witness: after an approve has forwarded a message and moved it to
\* Processed, the handler has answered one more request, for an id that has
\* no entry, and the message and its record are as the approve left them
C14_Witness ==
    /\ op["h1"].diag = "not in pending reviews"
    /\ folder[1] = "Processed"
    /\ movedOut[1].Review = 1
    /\ ~HasPending(pending_reviews, 1)
    /\ HasRecord(emails_data, 1, "Forwarded", FALSE)
    /\ \E d \in Dests : sent[1][d] = 1

\* positions of process_emails between taking existing_uids and its end
MidCycle == {"review", "fetch", "decide", "forward", "move", "moveReview"}

\* C15: a step in which an approve / reject handler reads or changes the
\* records or the pending-review map is taken only while no poll cycle is
\* between reading and writing them and no other handler is under way.
C15_SerializedAccess ==
    [][\A h \in Handlers :
          (op'[h] # op[h] /\ op[h].pc \in {"idle", "move"}) =>
              /\ \A t \in Pollers : poll[t].pc \notin MidCycle
              /\ \A g \in Handlers \ {h} : op[g].pc = "idle"]_vars

\* C16: a thread that is not inside a poll cycle or an operator action holds
\* no open mail-store connection.
C16_ConnectionsClosed ==
    /\ \A t \in Pollers : poll[t].pc \notin MidCycle => ~poll[t].connected
    /\ \A h \in Handlers : op[h].pc = "idle" => ~op[h].connected

\* C17: a watch loop that has been stopped does not start another poll
\* cycle when it next reads the run flag.
C17_StoppedLoopStartsNoCycle ==
    [][\A w \in Watchers :
          (poll[w].stopped /\ poll[w].pc = "top") => poll'[w].pc # "begin"]_vars

\* the message has reached some but not all of the destinations dests
PartlyDelivered(u, dests) ==
    /\ \E j \in 1..Len(dests) : sent[u][dests[j]] > 0
    /\ \E j \in 1..Len(dests) : sent[u][dests[j]] = 0

C20_StateAgreesWithFolder ==
    ( /\ \A t \in Pollers : poll[t].pc \notin MidCycle
      /\ \A h \in Handlers : op[h].pc = "idle" )
    => \A i \in 1..Len(emails_data) :
          LET e == emails_data[i]
          IN  /\ e.status = "Review" => folder[e.uid] = "Review"
              /\ e.status = "Forwarded" => folder[e.uid] = "Processed"
              /\ e.status = "Quarantined" => folder[e.uid] = "Quarantine"
              /\ e.status = "Skipped" => folder[e.uid] = "Skipped"

\* Rule.matches read off the rule: a predicate is declared when it is given
\* with a non-empty value; the sender pattern without its "*" occurs in the
\* sender, some subject keyword occurs in the subject, some keyword occurs
\* in the subject, a space and the body put together, letter case ignored
Declared(o) == o.set /\ Len(o.v) > 0

Occurs(pat, s) ==
    \E i, j \in 0..Len(s) : i <= j /\ Lower(SubSeq(s, i + 1, j)) = Lower(pat)

DeclaredPredicatesHold(rule, email) ==
    /\ Declared(rule.match_from) =>
           Occurs(RemoveStar(rule.match_from.v), email.from)
    /\ Declared(rule.match_subject) =>
           \E k \in 1..Len(rule.match_subject.v) :
               Occurs(rule.match_subject.v[k], email.subject)
    /\ Declared(rule.match_keywords) =>
           \E k \in 1..Len(rule.match_keywords.v) :
               Occurs(rule.match_keywords.v[k],
                      email.subject \o <<" ">> \o email.body)

\* the decision names the first rule of `matching`, or no rule if there is none
UsesFirstOf(matching, r, decision) ==
    /\ matching = {} => decision.matched_rule = None
    /\ \A i \in matching :
           (\A j \in matching : i <= j) =>
               /\ decision.matched_rule = r.rules[i].name
               /\ decision.forward_to = r.rules[i].forward_to

\* C21 (as amended): for every ordered rule list and every message,
\* Router.decide uses the first rule in list order whose declared predicates
\* all hold, a predicate being declared when it is present and non-empty and
\* the sender pattern being searched in the sender with its "*" characters
\* removed; a rule that declares no predicate matches every message, and of
\* two matching rules the earlier one wins.
C21_FirstMatchingRuleWins ==
    routed.present =>
        UsesFirstOf({i \in 1..Len(router.rules) :
                        DeclaredPredicatesHold(router.rules[i], routed.email)},
                    router, routed.decision)

\* C21 (as stated): Router.decide uses the first rule in list order whose
\* declared predicates all hold, the sender predicate being that the sender
\* pattern is contained case-insensitively in the sender.
C21_SenderPatternContained ==
    LET PatternContained(rule, email) ==
            Declared(rule.match_from) => Occurs(rule.match_from.v, email.from)
        OtherPredicatesHold(rule, email) ==
            DeclaredPredicatesHold([rule EXCEPT !.match_from = NoText], email)
    IN  routed.present =>
            UsesFirstOf({i \in 1..Len(router.rules) :
                            /\ PatternContained(router.rules[i], routed.email)
                            /\ OtherPredicatesHold(router.rules[i], routed.email)},
                        router, routed.decision)

\* C21 witness: the wildcard sender rule and the rule without predicates
\* both match a message, and the decision is the earlier one's
C21_Witness ==
    /\ routed.present
    /\ Len(router.rules) = 2
    /\ router.rules[1].name = "vip"
    /\ router.rules[2].name = "all"
    /\ routed.email.from = <<"A", "b">>
    /\ routed.decision.matched_rule = "vip"
    /\ routed.decision.forward_to = "ceo-inbox@mail.local"

\* a decide call returned in this step
DecideReturns == router # NoRouter /\ routed'.present

\* the rules of the router whose declared predicates hold on the message
MatchingRules(r, email) ==
    {i \in 1..Len(r.rules) : DeclaredPredicatesHold(r.rules[i], email)}

\* C22: whenever some rule matches a message, Router.decide returns without
\* invoking the analyzer: the decision's source is a matching rule, its
\* destination is that rule's destination, it carries no AI result, and
\* should_forward is true exactly when the rule's destination is non-empty.
C22_RuleDecisionSkipsAnalyzer ==
    [][DecideReturns /\ MatchingRules(router, routed'.email) # {} =>
          /\ analyze_calls' = analyze_calls
          /\ routed'.decision.ai_result = NoResult
          /\ \E i \in MatchingRules(router, routed'.email) :
                /\ routed'.decision.matched_rule = router.rules[i].name
                /\ routed'.decision.forward_to = router.rules[i].forward_to
                /\ routed'.decision.should_forward
                       <=> router.rules[i].forward_to # ""]_vars

\* C22 witness: a router with a usable analyzer, which an earlier decide
\* call invoked, has decided a message by the rule without destination
C22_Witness ==
    /\ routed.present
    /\ router.analyzer = "ollama"
    /\ router.default_action = "analyze"
    /\ analyze_calls = 1
    /\ routed.decision.matched_rule = "mute"
    /\ routed.decision.forward_to = ""
    /\ ~routed.decision.should_forward

\* the decide call of this step invoked the analyzer
AnalyzerInvoked == DecideReturns /\ analyze_calls' = analyze_calls + 1

\* C23: when no rule matches and the analyzer is invoked, the decision's
\* should_forward is true if and only if the AnalysisResult's primary
\* destination is non-empty and its confidence is at least the auto-forward
\* threshold; a confidence equal to the threshold forwards.
C23_ForwardIffDestinationAndThreshold ==
    [][AnalyzerInvoked /\ MatchingRules(router, routed'.email) = {} =>
          /\ routed'.decision.ai_result.present
          /\ routed'.decision.should_forward
                <=> /\ routed'.decision.ai_result.forward_to # ""
                    /\ routed'.decision.ai_result.confidence >= RouterThreshold]_vars

\* C23 witness: the analyzer answered with a destination and a confidence
\* equal to the threshold, and the decision forwards
C23_Witness ==
    /\ routed.present
    /\ analyze_calls >= 1
    /\ routed.decision.matched_rule = None
    /\ routed.decision.ai_result.present
    /\ routed.decision.ai_result.forward_to = "vendors@mail.local"
    /\ routed.decision.ai_result.confidence = RouterThreshold
    /\ routed.decision.should_forward

\* C24: when no rule matches and either no analyzer is configured or the
\* default action does not enable AI routing, Router.decide invokes no
\* analyzer and returns a no-route decision: empty destination,
\* should_forward false, no matched rule and no AI result.
C24_NoRouteWithoutAnalyzer ==
    [][/\ DecideReturns
       /\ MatchingRules(router, routed'.email) = {}
       /\ router.analyzer = None \/ router.default_action \notin {"analyze", "ai_route"}
       => /\ analyze_calls' = analyze_calls
          /\ routed'.decision.forward_to = ""
          /\ ~routed'.decision.should_forward
          /\ routed'.decision.matched_rule = None
          /\ routed'.decision.ai_result = NoResult
          /\ routed'.decision.additional_destinations = <<>>]_vars

\* C24 witness: a router holding the hosted analyzer but a default action
\* that does not enable AI routing has returned no route for a message that
\* none of its two rules matches
C24_Witness ==
    /\ routed.present
    /\ router.analyzer = "gemini"
    /\ router.default_action = "skip"
    /\ Len(router.rules) = 2
    /\ MatchingRules(router, routed.email) = {}
    /\ analyze_calls = 0
    /\ routed.decision.forward_to = ""
    /\ routed.decision.ai_result = NoResult

\* C25: the analyzer backend is chosen once, when the Router is constructed:
\* the local-model backend if AI is enabled and a local model is configured,
\* otherwise the hosted backend if AI is enabled and a hosted API key is
\* configured, otherwise no analyzer; no later decide call changes the choice.
C25_BackendChosenAtConstruction ==
    [][LET LocalConfigured(cfg) == cfg.ai_enabled /\ cfg.ollama_model # ""
           HostedConfigured(cfg) == cfg.ai_enabled /\ cfg.gemini_api_key # ""
       IN  /\ router = NoRouter => \A cfg \in RouterConfigs :
                  RouterConstruct(cfg) =>
                      /\ LocalConfigured(cfg) => router'.analyzer = "ollama"
                      /\ ~LocalConfigured(cfg) /\ HostedConfigured(cfg)
                             => router'.analyzer = "gemini"
                      /\ ~LocalConfigured(cfg) /\ ~HostedConfigured(cfg)
                             => router'.analyzer = None
           /\ router # NoRouter => router' = router]_vars

\* C25 witness: a router constructed with the hosted backend still holds it
\* after the decide calls that invoked it
C25_Witness ==
    /\ router # NoRouter
    /\ router.analyzer = "gemini"
    /\ analyze_calls = MaxAnalyzeCalls
    /\ routed.present
    /\ routed.decision.ai_result.present

\* the replies after which an attempt of the local-model analyzer fails
FailedReplies == {"error", "blank", "prose", "broken"}

\* C26: for one message, the local-model analyzer's analyze() performs at
\* most max_retries + 1 backend calls; it makes a further call only after a
\* backend error, an empty response or a parse failure; it returns on the
\* first attempt whose output parses, without calling the backend again;
\* and it always terminates.
C26_BoundedRetries ==
    /\ [](analysis.backend = "ollama" =>
              analysis.backend_calls <= analysis.max_retries + 1)
    /\ [][analysis.backend = "ollama" =>
              /\ analysis'.backend_calls > analysis.backend_calls
                     /\ analysis.backend_calls > 0
                     => analysis.last_reply \in FailedReplies
              /\ analysis'.backend_calls > analysis.backend_calls
                     /\ analysis'.last_reply = "json"
                     => /\ analysis'.pc = "returned"
                        /\ analysis'.result.present
              /\ analysis.pc = "returned" => analysis' = analysis]_vars
    /\ <>(analysis.pc = "returned")

\* C26 witness: with max_retries 2, two attempts failed and the third one's
\* output parsed: analyze() returned its result after three backend calls
C26_Witness ==
    /\ analysis.backend = "ollama"
    /\ analysis.max_retries = 2
    /\ analysis.pc = "returned"
    /\ analysis.backend_calls = 3
    /\ analysis.last_reply = "json"
    /\ analysis.last_err = "No JSON found in response"
    /\ analysis.result.category = "vendors"

\* C27: when every one of the max_retries + 1 attempts of analyze() fails
\* (backend error, empty response or unparseable output), analyze() does not
\* raise: it returns an AnalysisResult with category "review", confidence
\* 0.0 and an empty forward_to.
C27_ExhaustedRetriesGiveReview ==
    [][/\ analysis.backend = "ollama"
       /\ analysis'.backend_calls > analysis.backend_calls
       /\ analysis'.backend_calls = analysis.max_retries + 1
       /\ analysis'.last_reply \in FailedReplies
       => /\ analysis'.pc = "returned"
          /\ analysis'.result.present
          /\ analysis'.result.category = "review"
          /\ analysis'.result.confidence = 0
          /\ analysis'.result.forward_to = ""]_vars

\* C27 witness: with max_retries 2, the third attempt got a blank response
\* like the ones before, and analyze() returned the review result
C27_Witness ==
    /\ analysis.backend = "ollama"
    /\ analysis.max_retries = 2
    /\ analysis.backend_calls = 3
    /\ analysis.last_reply = "blank"
    /\ analysis.pc = "returned"
    /\ analysis.result = AnalysisResult("", "review", 0)

\* C28: for whichever backend is configured (local-model or hosted), a
\* classification failure (backend error, empty response or malformed
\* output) never propagates out of analyze(): the caller receives an
\* AnalysisResult with category "review" and confidence 0.0.
C28_FailureGivesReview ==
    analysis.pc = "returned" /\ analysis.last_reply \in FailedReplies =>
        /\ analysis.result.present
        /\ analysis.result.category = "review"
        /\ analysis.result.confidence = 0

\* C29: every AnalysisResult returned by analyze(), for either backend and
\* for any model output, has a confidence within [0.0, 1.0].
C29_ConfidenceInRange ==
    analysis.pc = "returned" =>
        /\ analysis.result.present
        /\ analysis.result.confidence >= 0
        /\ analysis.result.confidence <= ConfOne

\* C30: confidence normalization, for every numeric or numeric-string input
\* c: if c is greater than 1.0 the result is c divided by 100 and then
\* clamped to at most 1.0; if c is less than 0.0 the result is 0.0;
\* otherwise the result is c; a missing or non-numeric value gives 0.0.
\* (A JSON true or false is left unconstrained here.)
C30_NormalizationTable ==
    normalized.present =>
        IF val.kind \in {"num", "str"} THEN
            IF val.v > ConfOne THEN
                normalized.v = Min(ConfOne, val.v \div 100)
            ELSE IF val.v < 0 THEN normalized.v = 0
            ELSE normalized.v = val.v
        ELSE IF val.kind = "bool" THEN TRUE
        ELSE normalized.v = 0

\* C31: parsing a model response that is a JSON object lacking all required
\* fields does not raise: it yields an AnalysisResult with category
\* "unknown", confidence 0.0 and an empty destination.
C31_EmptyObjectParses ==
    /\ parsed.present
    /\ json_data.category = Absent
    /\ json_data.action = Absent
    /\ json_data.forward_to = Absent
    /\ json_data.confidence.kind = "absent"
    => /\ parsed.category = "unknown"
       /\ parsed.confidence = 0
       /\ parsed.forward_to = ""

\* C31 witness: the object without any of the four keys has been parsed
C31_Witness ==
    /\ parsed.present
    /\ json_data = NoObject
    /\ parsed.category = "unknown"

\* the action and the destination as _parse_response normalizes them
NormalizedAction(obj) == StrNorm(Get(obj, "action", "needs_review"))

DestinationGiven(obj) ==
    /\ obj.forward_to \notin {Absent, None}
    /\ StrStrip(obj.forward_to) # ""
    /\ StrNorm(StrStrip(obj.forward_to)) # "null"

\* C34: in response parsing, every action other than spam, forward with a
\* non-empty destination, no_forward and needs_review / needs-review (this
\* includes forward with an empty destination and any unrecognized string)
\* is forced to an AnalysisResult with category "review", confidence 0 and
\* an empty destination, whatever the model supplied.
C34_UnknownActionForcedToReview ==
    /\ parsed.present
    /\ NormalizedAction(json_data) \notin
           {"spam", "no_forward", "needs_review", "needs-review"}
    /\ ~(NormalizedAction(json_data) = "forward" /\ DestinationGiven(json_data))
    => /\ parsed.category = "review"
       /\ parsed.confidence = 0
       /\ parsed.forward_to = ""

\* C34 witness: an object with an unrecognized action, a category, a
\* destination and a confidence has been parsed to the review result
C34_Witness ==
    /\ parsed.present
    /\ json_data.action = "archive"
    /\ json_data.category = "Vendors"
    /\ json_data.forward_to = "vendors@mail.local"
    /\ json_data.confidence = [kind |-> "num", v |-> 9000]
    /\ parsed = AnalysisResult("", "review", 0)

\* C35: in response parsing, action spam always yields category "spam"
\* whatever category the model supplied, and a never-empty destination: the
\* model's destination if it gave one, otherwise the spam mailbox; a
\* forward_to that is null or the string "null" in any letter case counts
\* as not given.
C35_SpamGoesToSpamMailbox ==
    parsed.present /\ NormalizedAction(json_data) = "spam" =>
        /\ parsed.category = "spam"
        /\ parsed.forward_to # ""
        /\ json_data.forward_to \in {None, "null", "NULL", "Null"}
               => parsed.forward_to = "spam@mail.local"
        /\ json_data.forward_to = "vendors@mail.local"
               => parsed.forward_to = "vendors@mail.local"
        /\ json_data.forward_to \in {Absent, " "}
               => parsed.forward_to = "spam@mail.local"

\* C35 witness: a spam object with another category and forward_to "Null"
\* has been parsed to category spam and the spam mailbox
C35_Witness ==
    /\ parsed.present
    /\ json_data.action = " spam "
    /\ json_data.category = "Vendors"
    /\ json_data.forward_to = "Null"
    /\ parsed.category = "spam"
    /\ parsed.forward_to = "spam@mail.local"

\* C32: extracting the JSON object from a response in which the object is
\* surrounded by arbitrary prefix and suffix text yields the same parsed
\* object as extracting it from the bare object alone; a response with no
\* brace-delimited region, or one that still fails to parse, is reported as
\* a classification failure.
C32_SurroundingTextIgnored ==
    extracted.present =>
        /\ JsonLoads(response_text.body).ok =>
               /\ extracted.whole.ok
               /\ extracted.whole.obj = extracted.alone.obj
        /\ ~BraceRegion(response_text.prefix \o response_text.body
                            \o response_text.suffix).found
               => ~extracted.whole.ok

C36_OneLoopPolls ==
    [][\A w \in Watchers :
          (poll[w].pc = "top" /\ poll'[w].pc = "begin") =>
              \A v \in Watchers \ {w} :
                  poll[v].pc # "dead" => poll[v].stopped]_vars

\* C37: whenever no poll cycle and no operator action is in progress, the
\* pending-review map has an entry for a message id exactly when the tracked
\* record of that message has needs_review true.
C37_PendingIffNeedsReview ==
    ( /\ \A t \in Pollers : poll[t].pc \notin MidCycle
      /\ \A h \in Handlers : op[h].pc = "idle" )
    => \A u \in UIDs :
          HasPending(pending_reviews, u)
              <=> \E i \in 1..Len(emails_data) :
                      emails_data[i].uid = u /\ emails_data[i].needs_review

\* C38: every message that a poll cycle has added to the records in state
\* Pending eventually leaves Pending and Processing (its record becomes
\* Forwarded, Quarantined, Review or Error), also when the cycle that added
\* it was ended by an exception, as long as poll cycles keep running and
\* the message stays unread in INBOX.
C38_PendingEventuallyDecided ==
    \A u \in UIDs :
        (\E i \in 1..Len(emails_data) :
             emails_data[i].uid = u /\ emails_data[i].status = "Pending")
        ~> \/ \E i \in 1..Len(emails_data) :
                  /\ emails_data[i].uid = u
                  /\ emails_data[i].status
                         \in {"Forwarded", "Quarantined", "Review", "Error"}
           \/ folder[u] # "INBOX"
           \/ u \in seen

\* C39: no message is tracked twice: after any sequence of poll cycles,
\* a manual refresh running next to the watch loop included, the records
\* hold at most one record for each message id.
C39_OneRecordPerMessage ==
    \A i, j \in 1..Len(emails_data) :
        emails_data[i].uid = emails_data[j].uid => i = j

\* C40: when forwarding or the move to Processed fails during an approve,
\* the approve changes neither the records nor the pending-review map: the
\* entry is kept and the record stays in state Review with needs_review
\* true, so that the approve can be issued again.
C40_FailedApproveChangesNothing ==
    [][\A h \in Handlers :
          ( \/ /\ op[h].pc = "forward"
               /\ op'[h] = IdleHandler
               /\ restarts' = restarts
            \/ \E o \in MoveOutcomes \ {"moved"} : ApproveMove(h, o) )
          => /\ emails_data' = emails_data
             /\ pending_reviews' = pending_reviews
             /\ HasPending(pending_reviews', op[h].uid)
             /\ HasRecord(emails_data, op[h].uid, "Review", TRUE)
                    => HasRecord(emails_data', op[h].uid, "Review", TRUE)
             /\ op'[h].pc = "idle"]_vars

\* C40 witness: an approve forwarded the message and then failed to move
\* it: the message is in Review, its entry and its Review record are kept
\* and the handler is ready for the next request
C40_Witness ==
    /\ restarts = 0
    /\ op["h1"].pc = "idle"
    /\ folder[1] = "Review"
    /\ \E d \in Dests : sent[1][d] = 1
    /\ HasPending(pending_reviews, 1)
    /\ HasRecord(emails_data, 1, "Review", TRUE)

====
